---- MODULE Spec2Model ----
(***************************************************************************)
(* Model of the SIREN -> SIRET resolver: the paginated registry fetch     *)
(* (insee_sirene.get_sirets_from_siren), the batch run that drives it      *)
(* (App2.py, "Run batch") and the reading of the pasted identifiers        *)
(* (App2.extract_sirens_from_text).                                        *)
(*                                                                         *)
(* The SIREN and SIRET of a record, strings that are only compared for    *)
(* order, are modelled by naturals in the same order, 0 standing for the  *)
(* empty / missing string.  A JSON null or an absent key is the string    *)
(* "null".  The pasted text and the identifiers made of it are sequences  *)
(* of one-character strings.                                               *)
(***************************************************************************)
EXTENDS Integers, Sequences, FiniteSets, TLC

VARIABLES
    sirens_text,      \* App2: the text pasted in the text area, a sequence of characters
    sirens_from_text, \* App2: what extract_sirens_from_text made of it
    sirens_list,      \* App2: the identifiers of the batch, in list order
    only_active,      \* the "only active" checkbox / parameter
    max_pages,        \* get_sirets_from_siren parameter
    max_429_retries,  \* get_sirets_from_siren parameter
    page_size,        \* get_sirets_from_siren parameter: records asked per page
    catalog,          \* environment: the records the registry can answer with
    stop,             \* st.session_state.stop
    df_result,        \* st.session_state.df_result
    bstate,           \* position of the batch script
    b_error,          \* the error the batch run ended with ("none" if none)
    idx,              \* i of "for i, s in enumerate(sirens_list, start=1)"
    all_rows,         \* App2: all_rows
    blog,             \* history: stop checks and fetcher calls of the batch
    fpc,              \* position inside get_sirets_from_siren
    page,             \* loop variable of "for page in range(max_pages)"
    curseur,          \* the cursor of the next request
    retry_429,        \* consecutive 429 counter
    rows,             \* rows accumulated by the running fetch
    all_etabs,        \* raw records accumulated by the running fetch
    f_outcome,        \* how the last call of get_sirets_from_siren ended
    ret_rows,         \* rows handed back to the caller by the last call
    ret_etabs,        \* raw records handed back to the caller by the last call
    flog              \* history: sleeps and requests of the last call

vars == <<sirens_text, sirens_from_text, sirens_list, only_active, max_pages,
          max_429_retries, page_size, catalog, stop,
          df_result, bstate, b_error, idx, all_rows, blog, fpc, page, curseur,
          retry_429, rows, all_etabs, f_outcome, ret_rows, ret_etabs, flog>>

batchVars == <<df_result, bstate, b_error, idx, all_rows, blog>>
fetchVars == <<fpc, page, curseur, retry_429, rows, all_etabs, f_outcome,
               ret_rows, ret_etabs, flog>>
inputVars == <<sirens_text, sirens_from_text, sirens_list>>
paramVars == <<inputVars, only_active, max_pages, max_429_retries, page_size, catalog>>

-----------------------------------------------------------------------------
(* Bounds of the model *)

MaxSirens == 3          \* identifiers in a batch
MaxPagesBatch == 2      \* largest max_pages explored in a batch
MaxPagesFetch == 4      \* largest max_pages explored for a single fetch
MaxRetries == 2         \* largest max_429_retries explored
MaxPageSize == 2        \* largest page_size explored for a single fetch
MaxPeriods == 2         \* entries of periodesEtablissement in a record
MaxPageLen == 3         \* page_size of the fetch whose pages hold several records
MaxRows == 3            \* rows aggregated by the batch whose result is built
MaxRawLen == 10         \* characters of the identifier handed to one call
MaxTokens == 4          \* pieces the pasted text is made of
MaxPagesLive == 3       \* largest max_pages explored for the end of a call

-----------------------------------------------------------------------------
(* Values *)

Null == "null"
FirstCursor == "*"
Cursors == {FirstCursor, "c1", "c2"}
NextCursors == Cursors \cup {Null, ""}

NetworkError == 0
Statuses == {NetworkError, 200, 400, 401, 429, 500}

EtatVals == {Null, " ", "A", " A", "F", "X"}
PeriodEtatVals == {Null, " ", "A", "F"}

\* (v or "").strip()
OrEmptyStrip(v) ==
    CASE v = Null -> ""
      [] v = " "  -> ""
      [] v = " A" -> "A"
      [] OTHER    -> v

Periods == [dateFin : {0, 1}, dateDebut : {0, 1}, etat : PeriodEtatVals]

(* Identifiers and texts are sequences of one-character strings *)
SirenLen == 9           \* "if len(siren) != 9"

DigitChars == <<"0", "1", "2", "3", "4", "5", "6", "7", "8", "9">>

\* ch.isdigit() and the class \d, on the characters of the model
IsDigit(ch) == \E k \in 1..Len(DigitChars) : DigitChars[k] = ch

\* what _normalize_siren raises
ValueError == <<"ValueError">>

\* mutant: the length is tested on the raw text, nothing being removed
_normalize_siren_NoStrip(raw) ==
    IF Len(raw) # SirenLen THEN ValueError ELSE SelectSeq(raw, IsDigit)

\* keep the digits of the raw text; anything but 9 of them is a ValueError
_normalize_siren(raw) ==
    LET siren == SelectSeq(raw, IsDigit)
    IN  IF Len(siren) # SirenLen THEN ValueError ELSE siren

\* the well-formed identifier made of the digit k, nine times
Siren(k) == [j \in 1..SirenLen |-> DigitChars[k + 1]]

RECURSIVE SeqsUpTo(_, _)
SeqsUpTo(S, n) ==
    IF n = 0 THEN {<<>>}
    ELSE LET shorter == SeqsUpTo(S, n - 1)
         IN  shorter \cup {Append(s, x) : s \in {t \in shorter : Len(t) = n - 1}, x \in S}

\* _latest_period: the first period without dateFin, else the first one with
\* the largest dateDebut (a missing dateDebut counts as "0000-00-00" = 0)
FirstIn(s, wanted) == s[CHOOSE k \in wanted : \A j \in wanted : k <= j]

_latest_period(periodes) ==
    LET current == {k \in 1..Len(periodes) : periodes[k].dateFin = 0}
        latest  == {k \in 1..Len(periodes) :
                       \A j \in 1..Len(periodes) : periodes[j].dateDebut <= periodes[k].dateDebut}
    IN  IF current # {} THEN FirstIn(periodes, current) ELSE FirstIn(periodes, latest)

_get_etat_admin(etab) ==
    LET nested == IF etab.periodes # <<>>
                  THEN OrEmptyStrip(_latest_period(etab.periodes).etat)
                  ELSE ""
    IN  IF nested # "" THEN nested ELSE OrEmptyStrip(etab.etat)

\* status_map.get(etat_code, etat_code); "Ferme" stands for the accented label
StatusLabel(code) ==
    CASE code = "A" -> "Actif"
      [] code = "F" -> "Ferme"
      [] OTHER      -> code

\* mutant: the re-check reads the flattened status, not the resolved one
KeepRecord_FlatStatus(etab, active_only) ==
    /\ etab.siret # 0
    /\ ~(active_only /\ OrEmptyStrip(etab.etat) # "" /\ OrEmptyStrip(etab.etat) # "A")

\* the two "continue" of the record loop
KeepRecord(etab, active_only) ==
    /\ etab.siret # 0
    /\ ~(active_only /\ _get_etat_admin(etab) # "" /\ _get_etat_admin(etab) # "A")

\* d.get(k): the value under the key k, None when d has no such key
Get(d, k) == IF k \in DOMAIN d THEN d[k] ELSE Null

\* etab.get(k) or {}: the nested object under k, the empty dict when absent
Nested(etab, k) == IF k \in DOMAIN etab THEN etab[k] ELSE <<>>

\* the truth value of a string or None
Truthy(v) == v # Null /\ v # ""

\* sep.join(...) of the parts that are not empty is modelled by the sequence
\* of these parts; the empty sequence is the empty string
NonEmpty(v) == v # ""
NonEmptyParts(p) == p # <<>>
Part(v) == IF v = "" THEN <<>> ELSE <<v>>

\* the name under one dict: its denomination, else first name and name
NameIn(d) ==
    LET denom  == OrEmptyStrip(Get(d, "denominationUniteLegale"))
        nom    == OrEmptyStrip(Get(d, "nomUniteLegale"))
        prenom == OrEmptyStrip(Get(d, "prenom1UniteLegale"))
    IN  IF denom # "" THEN <<denom>> ELSE SelectSeq(<<prenom, nom>>, NonEmpty)

\* the name of uniteLegale when it gives one, else the flattened name
_get_unite_legale_name(etab) ==
    LET nested == NameIn(Nested(etab, "uniteLegale"))
    IN  IF nested # <<>> THEN nested ELSE NameIn(etab)

\* the label under one dict: its signs, else its usual denomination
LabelIn(d) ==
    LET enseignes == SelectSeq(<<OrEmptyStrip(Get(d, "enseigne1Etablissement")),
                                 OrEmptyStrip(Get(d, "enseigne2Etablissement")),
                                 OrEmptyStrip(Get(d, "enseigne3Etablissement"))>>, NonEmpty)
        denom_usuelle == OrEmptyStrip(Get(d, "denominationUsuelleEtablissement"))
    IN  IF enseignes # <<>> THEN enseignes ELSE Part(denom_usuelle)

\* the label of the current period when it gives one, else the flattened label
_get_etablissement_label(etab) ==
    LET p0 == IF etab.periodes # <<>> THEN _latest_period(etab.periodes) ELSE <<>>
        nested == LabelIn(p0)
    IN  IF nested # <<>> THEN nested ELSE LabelIn(etab)

\* pick(k) of _format_adresse: (adr.get(k) or etab.get(k) or "").strip()
pick(etab, k) ==
    LET nested == Get(Nested(etab, "adresseEtablissement"), k)
        flat   == Get(etab, k)
    IN  OrEmptyStrip(IF Truthy(nested) THEN nested ELSE IF Truthy(flat) THEN flat ELSE "")

_format_adresse(etab) ==
    LET voie == SelectSeq(<<pick(etab, "numeroVoieEtablissement"),
                            pick(etab, "indiceRepetitionEtablissement"),
                            pick(etab, "typeVoieEtablissement"),
                            pick(etab, "libelleVoieEtablissement")>>, NonEmpty)
        complement == pick(etab, "complementAdresseEtablissement")
        dist    == pick(etab, "distributionSpecialeEtablissement")
        cp      == pick(etab, "codePostalEtablissement")
        commune == pick(etab, "libelleCommuneEtablissement")
        cedex   == pick(etab, "libelleCedexEtablissement")
    IN  [Adresse |-> SelectSeq(<<Part(complement), voie, Part(dist)>>, NonEmptyParts),
         CodePostal |-> cp,
         Ville |-> IF cedex # "" THEN cedex ELSE commune]

MakeRow(etab) ==
    LET adr == _format_adresse(etab)
    IN  [SIRET |-> etab.siret, SIREN |-> etab.siren,
         NomUniteLegale |-> _get_unite_legale_name(etab),
         NomEtablissement |-> _get_etablissement_label(etab),
         Siege |-> etab.siege,
         Etat |-> StatusLabel(_get_etat_admin(etab)),
         Adresse |-> adr.Adresse, CodePostal |-> adr.CodePostal, Ville |-> adr.Ville]

\* mutant: the record loop is left at the first record it skips
RECURSIVE ProcessEtabs_BreakOnSkip(_, _)
ProcessEtabs_BreakOnSkip(etabs, active_only) ==
    IF etabs = <<>> THEN <<>>
    ELSE LET e == Head(etabs)
         IN  IF KeepRecord(e, active_only)
             THEN <<MakeRow(e)>> \o ProcessEtabs_BreakOnSkip(Tail(etabs), active_only)
             ELSE <<>>

\* "for e in etabs": a kept record appends its row, a skipped one appends nothing
RECURSIVE ProcessEtabs(_, _)
ProcessEtabs(etabs, active_only) ==
    IF etabs = <<>> THEN <<>>
    ELSE LET e == Head(etabs)
         IN  (IF KeepRecord(e, active_only) THEN <<MakeRow(e)>> ELSE <<>>)
             \o ProcessEtabs(Tail(etabs), active_only)

-----------------------------------------------------------------------------
(* Deduplication and sorting *)

\* mutant: a known key keeps the value it has
DictPut_KeepFirst(d, row) ==
    IF \E k \in 1..Len(d) : d[k].SIRET = row.SIRET THEN d ELSE Append(d, row)

\* dict insertion: a known key keeps its place and takes the new value
DictPut(d, row) ==
    IF \E k \in 1..Len(d) : d[k].SIRET = row.SIRET
    THEN [k \in 1..Len(d) |-> IF d[k].SIRET = row.SIRET THEN row ELSE d[k]]
    ELSE Append(d, row)

RECURSIVE DictOfRows(_, _)
DictOfRows(d, rs) ==
    IF rs = <<>> THEN d ELSE DictOfRows(DictPut(d, Head(rs)), Tail(rs))

\* sort keys: by = <<"SIRET">> or <<"SIREN", "SIRET">>, compared lexicographically
RowBefore(a, b, by) ==
    \E k \in 1..Len(by) :
        /\ a[by[k]] < b[by[k]]
        /\ \A j \in 1..(k - 1) : a[by[j]] = b[by[j]]

\* list.sort / lexsort are stable: a row goes behind the rows it does not precede
RECURSIVE InsertSorted(_, _, _)
InsertSorted(sorted, row, by) ==
    IF sorted = <<>> THEN <<row>>
    ELSE IF RowBefore(row, Head(sorted), by) THEN <<row>> \o sorted
    ELSE <<Head(sorted)>> \o InsertSorted(Tail(sorted), row, by)

RECURSIVE StableSort(_, _, _)
StableSort(done, rs, by) ==
    IF rs = <<>> THEN done
    ELSE StableSort(InsertSorted(done, Head(rs), by), Tail(rs), by)

\* insee_sirene.py: dedup = {row["SIRET"]: row for row in rows}; rows.sort(SIRET)
FinishRows(rs) == StableSort(<<>>, DictOfRows(<<>>, rs), <<"SIRET">>)

\* pandas drop_duplicates(subset=["SIRET"]): keep="first" is the default
RECURSIVE DropDuplicates(_, _)
DropDuplicates(kept, rs) ==
    IF rs = <<>> THEN kept
    ELSE IF \E k \in 1..Len(kept) : kept[k].SIRET = Head(rs).SIRET
         THEN DropDuplicates(kept, Tail(rs))
         ELSE DropDuplicates(Append(kept, Head(rs)), Tail(rs))

\* st.session_state.df_result: None, or a table of rows
NoResult == [none |-> TRUE, table |-> <<>>]
Stored(table) == [none |-> FALSE, table |-> table]

\* mutant: only a row that repeats the SIRET of the row before it is dropped
BuildResult_DedupAdjacent(rs) ==
    LET keep == {k \in 1..Len(rs) : k = 1 \/ rs[k - 1].SIRET # rs[k].SIRET}
        kept == [i \in 1..Cardinality(keep) |->
                    rs[CHOOSE k \in keep : Cardinality({j \in keep : j <= k}) = i]]
    IN  IF rs = <<>> THEN <<>>
        ELSE StableSort(<<>>, kept, <<"SIREN", "SIRET">>)

\* mutant: the result is sorted by SIRET alone
BuildResult_SortBySiret(rs) ==
    IF rs = <<>> THEN <<>>
    ELSE StableSort(<<>>, DropDuplicates(<<>>, rs), <<"SIRET">>)

\* App2.py: DataFrame(all_rows), drop_duplicates, sort_values(["SIREN", "SIRET"]);
\* an empty DataFrame has no column and is left as it is
BuildResult(rs) ==
    IF rs = <<>> THEN <<>>
    ELSE StableSort(<<>>, DropDuplicates(<<>>, rs), <<"SIREN", "SIRET">>)

-----------------------------------------------------------------------------
(* Decisions of get_sirets_from_siren *)

BaseSleep == 2          \* base_sleep_s = 0.2 s, in tenths of a second

\* mutant: the loop runs one more turn
LoopExhausted_OneMore(p, mp) == p > mp

\* "for page in range(max_pages)" has no iteration left
LoopExhausted(p, mp) == p >= mp

\* mutant: the stop predicate is never consulted
ShouldStop_Never(flag) == FALSE

\* "if should_stop and should_stop()", should_stop = lambda: st.session_state.stop
ShouldStop(flag) == flag

\* time.sleep(1.0 * retry_429), in tenths of a second
BackoffSleep(retry) == 10 * retry

\* mutant: the counter is not reset by a response that is no 429
NextRetry_NoReset(status, retry) == IF status = 429 THEN retry + 1 ELSE retry

\* retry_429 += 1 on a 429, retry_429 = 0 on any other response
NextRetry(status, retry) == IF status = 429 THEN retry + 1 ELSE 0

RetriesExceeded(retry, max) == retry > max

\* mutant: a server error is retried like a 429
Classify_RetryServerError(status) ==
    CASE status = NetworkError -> "network"
      [] status = 429 -> "throttled"
      [] status = 401 -> "http401"
      [] status = 400 -> "http400"
      [] status >= 500 /\ status < 600 -> "throttled"
      [] status >= 400 /\ status < 500 -> "http_error"
      [] OTHER -> "page"

\* what the code does with the answer to a request
Classify(status) ==
    CASE status = NetworkError -> "network"
      [] status = 429 -> "throttled"
      [] status = 401 -> "http401"
      [] status = 400 -> "http400"
      [] status >= 400 /\ status < 600 -> "http_error"
      [] OTHER -> "page"

\* mutant: a repeated cursor is not noticed
NoMorePages_NoStallCheck(next_cursor, cur) ==
    \/ next_cursor = Null
    \/ next_cursor = ""

\* "if not next_cursor: break" and "if next_cursor == curseur: break"
NoMorePages(next_cursor, cur) ==
    \/ next_cursor = Null
    \/ next_cursor = ""
    \/ next_cursor = cur

\* mutant: the retry that follows a 429 starts again from the first cursor
CursorAfter_RestartOn429(kind, cur, nxt) == IF kind = "page" THEN nxt ELSE FirstCursor

\* the cursor of the next request: "curseur = next_cursor" after a page of
\* records, left as it is by the "continue" that follows a 429
CursorAfter(kind, cur, nxt) == IF kind = "page" THEN nxt ELSE cur

(* History entries *)
Ev(ev, cur, st, nxt, d) == [ev |-> ev, cur |-> cur, st |-> st, nxt |-> nxt, d |-> d]
CheckEv(flag) == Ev("check", "-", 0, "-", IF flag THEN 1 ELSE 0)
SleepEv(d) == Ev("sleep", "-", 0, "-", d)
BackoffEv(d) == Ev("backoff", "-", 0, "-", d)
GetEv(cur, st, nxt) == Ev("get", cur, st, nxt, 0)
\* a request answered with a page of n records
PageEv(cur, st, nxt, n) == Ev("get", cur, st, nxt, n)

-----------------------------------------------------------------------------
(* extract_sirens_from_text and merge_unique *)

RunLen == 9             \* the pattern \d{9}

\* the class \w on the characters of the model: digits, letters, underscore
IsWordChar(ch) == IsDigit(ch) \/ ch \in {"a", "_"}

\* text.replace(" ", "").replace("\t", "")
NotBlank(ch) == ch \notin {" ", "\t"}
Compact(text) == SelectSeq(text, NotBlank)

\* \b holds before character p (p = Len + 1: at the end): exactly one of the
\* characters p - 1 and p is a word character, a missing character being none
WordAt(s, p) == p >= 1 /\ p <= Len(s) /\ IsWordChar(s[p])
Boundary(s, p) == WordAt(s, p - 1) # WordAt(s, p)

\* mutant: the pattern is \d{9}, without the two \b
MatchAt_NoBoundary(s, p) ==
    /\ p + RunLen - 1 <= Len(s)
    /\ \A k \in p..(p + RunLen - 1) : IsDigit(s[k])

\* the pattern \b\d{9}\b matches at character p
MatchAt(s, p) ==
    /\ p + RunLen - 1 <= Len(s)
    /\ \A k \in p..(p + RunLen - 1) : IsDigit(s[k])
    /\ Boundary(s, p)
    /\ Boundary(s, p + RunLen)

\* re.findall: the matches from left to right, the scan resuming behind a match
RECURSIVE FindAll(_, _)
FindAll(s, p) ==
    IF p > Len(s) THEN <<>>
    ELSE IF MatchAt(s, p)
         THEN <<SubSeq(s, p, p + RunLen - 1)>> \o FindAll(s, p + RunLen)
         ELSE FindAll(s, p + 1)

\* "if s not in seen: seen.add(s); out.append(s)"
RECURSIVE Unique(_, _)
Unique(out, found) ==
    IF found = <<>> THEN out
    ELSE IF \E k \in 1..Len(out) : out[k] = Head(found)
         THEN Unique(out, Tail(found))
         ELSE Unique(Append(out, Head(found)), Tail(found))

extract_sirens_from_text(text) ==
    IF text = <<>> THEN <<>> ELSE Unique(<<>>, FindAll(Compact(text), 1))

merge_unique(a, b) == Unique(<<>>, a \o b)

-----------------------------------------------------------------------------
(* Decisions of the batch run *)

\* btn_run: "if st.session_state.stop: st.warning(...); st.stop()"
LaunchRefused(flag) == flag

\* mutant: the flag is not read between two identifiers
BatchShouldStop_Never(flag) == FALSE

\* "if st.session_state.stop: raise RuntimeError("STOP_REQUESTED")"
BatchShouldStop(flag) == flag

\* mutant: skip the failed identifier and go on with the next one
BatchAfterRaise_SkipAndContinue(kind) == IF kind = "stop" THEN "stopped" ELSE "loop"

\* the except clauses: STOP_REQUESTED ends in st.stop(), anything else is shown
BatchAfterRaise(kind) == IF kind = "stop" THEN "stopped" ELSE "error"

Total == Len(sirens_list)

\* the parameters of Streamlit's info(body, *, icon, width), also of the
\* info of a placeholder made by st.empty()
InfoParams == {"body", "icon", "width"}

\* a call of info with the arguments kw: without body, or with a keyword that
\* info does not have, the call is a TypeError
InfoCall(kw) == IF "body" \in kw /\ kw \subseteq InfoParams THEN "shown" ELSE "TypeError"

\* what the page shows once the run is over: st.warning at a refused launch,
\* status_text.success at the end, and in the except clauses first
\* status_text.info(label = ..., state = "error"), a TypeError that leaves the
\* clause before st.stop() or st.exception(e)
Surfaced ==
    CASE bstate = "halted"  -> "warning"
      [] bstate = "done"    -> "success"
      [] bstate = "stopped" -> IF InfoCall({"label", "state"}) = "TypeError"
                               THEN "TypeError" ELSE "stopped"
      [] bstate = "error"   -> IF InfoCall({"label", "state"}) = "TypeError"
                               THEN "TypeError" ELSE b_error
      [] OTHER              -> "running"

\* an exception leaves get_sirets_from_siren and reaches the except clauses
Raise(kind, log) ==
    /\ f_outcome' = kind
    /\ fpc' = "end"
    /\ flog' = log
    /\ rows' = <<>>
    /\ all_etabs' = <<>>
    /\ ret_rows' = <<>>
    /\ ret_etabs' = <<>>
    /\ bstate' = BatchAfterRaise(kind)
    /\ b_error' = IF kind = "stop" THEN b_error ELSE kind
    /\ UNCHANGED <<df_result, idx, all_rows, blog, page, curseur, stop>>

-----------------------------------------------------------------------------
(* The batch run *)

\* the script runs down to the run button: the text area is read, nothing
\* having been uploaded
ExtractSirens ==
    /\ bstate = "input"
    /\ sirens_from_text' = extract_sirens_from_text(sirens_text)
    /\ sirens_list' = merge_unique(<<>>, sirens_from_text')
    /\ bstate' = "idle"
    /\ UNCHANGED <<sirens_text, only_active, max_pages, max_429_retries, page_size, catalog>>
    /\ UNCHANGED <<df_result, b_error, idx, all_rows, blog, stop>>
    /\ UNCHANGED fetchVars

\* the run button is clicked
Launch ==
    /\ bstate = "idle"
    /\ blog' = Append(blog, [ev |-> "launch", i |-> 0, flag |-> stop])
    /\ IF LaunchRefused(stop)
       THEN /\ bstate' = "halted"
            /\ UNCHANGED <<all_rows, idx>>
       ELSE /\ bstate' = "loop"
            /\ all_rows' = <<>>
            /\ idx' = 1
    /\ UNCHANGED <<df_result, b_error, stop>>
    /\ UNCHANGED fetchVars
    /\ UNCHANGED paramVars

\* mutant: a stopped batch stores the rows gathered so far
BatchStop_StoresPartial ==
    /\ bstate = "loop"
    /\ idx <= Total
    /\ BatchShouldStop(stop)
    /\ bstate' = "stopped"
    /\ blog' = Append(blog, [ev |-> "check", i |-> idx, flag |-> stop])
    /\ df_result' = Stored(BuildResult(all_rows))
    /\ UNCHANGED <<b_error, idx, all_rows, stop>>
    /\ UNCHANGED fetchVars
    /\ UNCHANGED paramVars

\* top of the for loop with the stop flag set
BatchStop ==
    /\ bstate = "loop"
    /\ idx <= Total
    /\ BatchShouldStop(stop)
    /\ bstate' = "stopped"
    /\ blog' = Append(blog, [ev |-> "check", i |-> idx, flag |-> stop])
    /\ UNCHANGED <<df_result, b_error, idx, all_rows, stop>>
    /\ UNCHANGED fetchVars
    /\ UNCHANGED paramVars

\* top of the for loop: get_sirets_from_siren(siren = s, ...) is entered
BatchCall ==
    /\ bstate = "loop"
    /\ idx <= Total
    /\ ~BatchShouldStop(stop)
    /\ blog' = blog \o <<[ev |-> "check", i |-> idx, flag |-> stop],
                         [ev |-> "call", i |-> idx, flag |-> stop]>>
    /\ page' = 0
    /\ curseur' = FirstCursor
    /\ retry_429' = 0
    /\ rows' = <<>>
    /\ all_etabs' = <<>>
    /\ ret_rows' = <<>>
    /\ ret_etabs' = <<>>
    /\ flog' = <<>>
    /\ IF _normalize_siren(sirens_list[idx]) = ValueError
       THEN \* "siren = _normalize_siren(siren)" raised: the loop is not entered
            /\ f_outcome' = "validation"
            /\ fpc' = "end"
            /\ bstate' = BatchAfterRaise("validation")
            /\ b_error' = "validation"
       ELSE /\ f_outcome' = "running"
            /\ fpc' = "top"
            /\ bstate' = "fetch"
            /\ UNCHANGED b_error
    /\ UNCHANGED <<df_result, idx, all_rows, stop>>
    /\ UNCHANGED paramVars

\* the for loop is over: deduplicate, sort, store
BatchFinish ==
    /\ bstate = "loop"
    /\ idx > Total
    /\ df_result' = Stored(BuildResult(all_rows))
    /\ bstate' = "done"
    /\ UNCHANGED <<b_error, idx, all_rows, blog, stop>>
    /\ UNCHANGED fetchVars
    /\ UNCHANGED paramVars

-----------------------------------------------------------------------------
(* get_sirets_from_siren *)

\* the for loop has run max_pages times: the else clause raises
FetchLoopEnd ==
    /\ bstate = "fetch" /\ fpc = "top"
    /\ LoopExhausted(page, max_pages)
    /\ Raise("safety", flog)
    /\ UNCHANGED retry_429
    /\ UNCHANGED paramVars

FetchStopRequested ==
    /\ bstate = "fetch" /\ fpc = "top"
    /\ ~LoopExhausted(page, max_pages)
    /\ ShouldStop(stop)
    /\ Raise("stop", Append(flog, CheckEv(stop)))
    /\ UNCHANGED retry_429
    /\ UNCHANGED paramVars

FetchProceed ==
    /\ bstate = "fetch" /\ fpc = "top"
    /\ ~LoopExhausted(page, max_pages)
    /\ ~ShouldStop(stop)
    /\ fpc' = "req"
    /\ flog' = Append(flog, CheckEv(stop))
    /\ UNCHANGED <<page, curseur, retry_429, rows, all_etabs, f_outcome, ret_rows, ret_etabs>>
    /\ UNCHANGED batchVars
    /\ UNCHANGED stop
    /\ UNCHANGED paramVars

\* time.sleep(base_sleep_s); session.get(...) answered by `status`
Requested(status, nxt) == flog \o <<SleepEv(BaseSleep), GetEv(curseur, status, nxt)>>

RespNetworkError ==
    /\ bstate = "fetch" /\ fpc = "req"
    /\ Classify(NetworkError) = "network"
    /\ Raise("network", Requested(NetworkError, "-"))
    /\ UNCHANGED retry_429
    /\ UNCHANGED paramVars

RespThrottled ==
    /\ bstate = "fetch" /\ fpc = "req"
    /\ \E status \in Statuses :
        /\ Classify(status) = "throttled"
        /\ retry_429' = NextRetry(status, retry_429)
        /\ IF RetriesExceeded(retry_429', max_429_retries)
           THEN Raise("rate_limit", Requested(status, "-"))
           ELSE /\ flog' = Append(Requested(status, "-"), BackoffEv(BackoffSleep(retry_429')))
                /\ page' = page + 1
                /\ fpc' = "top"
                /\ curseur' = CursorAfter(Classify(status), curseur, "-")
                /\ UNCHANGED <<rows, all_etabs, f_outcome, ret_rows, ret_etabs>>
                /\ UNCHANGED batchVars
                /\ UNCHANGED stop
    /\ UNCHANGED paramVars

RespHttpError ==
    /\ bstate = "fetch" /\ fpc = "req"
    /\ \E status \in Statuses :
        /\ Classify(status) \in {"http401", "http400", "http_error"}
        /\ retry_429' = NextRetry(status, retry_429)
        /\ Raise(Classify(status), Requested(status, "-"))
    /\ UNCHANGED paramVars

\* the registry answers with at most page_size ("nombre") records
Pages == SeqsUpTo(catalog, page_size)

\* every page the registry can answer with, and the rows the record loop
\* makes of it
Answers == {[etabs |-> e, new_rows |-> ProcessEtabs(e, only_active)] : e \in Pages}

\* a page of records: normalise them, then stop or move to the next cursor
RespPage ==
    /\ bstate = "fetch" /\ fpc = "req"
    /\ \E status \in Statuses, answer \in Answers :
        LET etabs    == answer.etabs
            new_rows == answer.new_rows
        IN  /\ Classify(status) = "page"
            /\ retry_429' = NextRetry(status, retry_429)
            /\ \E nxt \in NextCursors :
                /\ flog' = flog \o <<SleepEv(BaseSleep), PageEv(curseur, status, nxt, Len(etabs))>>
                /\ IF NoMorePages(nxt, curseur)
                   THEN /\ ret_rows' = FinishRows(rows \o new_rows)
                        /\ ret_etabs' = all_etabs \o etabs
                        /\ f_outcome' = "ok"
                        /\ fpc' = "end"
                        /\ rows' = <<>>
                        /\ all_etabs' = <<>>
                        /\ all_rows' = all_rows \o ret_rows'
                        /\ idx' = idx + 1
                        /\ bstate' = "loop"
                        /\ UNCHANGED <<page, curseur, df_result, b_error, blog>>
                   ELSE /\ rows' = rows \o new_rows
                        /\ all_etabs' = all_etabs \o etabs
                        /\ curseur' = CursorAfter(Classify(status), curseur, nxt)
                        /\ page' = page + 1
                        /\ fpc' = "top"
                        /\ UNCHANGED <<f_outcome, ret_rows, ret_etabs>>
                        /\ UNCHANGED batchVars
    /\ UNCHANGED stop
    /\ UNCHANGED paramVars

-----------------------------------------------------------------------------
(* The Stop and Reset buttons *)

StopButton ==
    /\ stop' = TRUE
    /\ UNCHANGED batchVars
    /\ UNCHANGED fetchVars
    /\ UNCHANGED paramVars

ResetButton ==
    /\ stop' = FALSE
    /\ UNCHANGED batchVars
    /\ UNCHANGED fetchVars
    /\ UNCHANGED paramVars

Next ==
    \/ Launch
    \/ BatchStop
    \/ BatchCall
    \/ BatchFinish
    \/ FetchLoopEnd
    \/ FetchStopRequested
    \/ FetchProceed
    \/ RespNetworkError
    \/ RespThrottled
    \/ RespHttpError
    \/ RespPage
    \/ StopButton
    \/ ResetButton

-----------------------------------------------------------------------------
(* Initial states *)

Etab(siret, siren, siege, periodes, etat) ==
    [siret |-> siret, siren |-> siren, siege |-> siege, periodes |-> periodes, etat |-> etat]

\* one active establishment
FetchCatalog == {Etab(1, 1, TRUE, <<>>, "A")}

\* the same SIRET answered with two contents, and a closed establishment
BatchCatalog ==
    {Etab(1, 1, TRUE, <<>>, "A"), Etab(1, 1, FALSE, <<>>, Null), Etab(2, 2, FALSE, <<>>, "F")}

\* every shape of the status of one record
RecordCatalogs ==
    {{Etab(siret, 1, FALSE, periodes, etat)} :
        siret \in {0, 1}, periodes \in SeqsUpTo(Periods, MaxPeriods), etat \in EtatVals}

\* the result a former run has stored
PriorResult == Stored(<<MakeRow(Etab(3, 3, TRUE, <<>>, "A"))>>)

InitCommon ==
    /\ bstate = "idle"
    /\ b_error = "none"
    /\ idx = 0
    /\ all_rows = <<>>
    /\ blog = <<>>
    /\ fpc = "end"
    /\ page = 0
    /\ curseur = FirstCursor
    /\ retry_429 = 0
    /\ rows = <<>>
    /\ all_etabs = <<>>
    /\ f_outcome = "none"
    /\ ret_rows = <<>>
    /\ ret_etabs = <<>>
    /\ flog = <<>>

\* the text area is empty: the identifiers come from the uploaded file
NoText ==
    /\ sirens_text = <<>>
    /\ sirens_from_text = <<>>

\* a batch over one to MaxSirens identifiers, the registry being asked for one
\* record per page and one 429 retry being allowed
Init ==
    /\ InitCommon
    /\ NoText
    /\ sirens_list \in {[k \in 1..n |-> Siren(k)] : n \in 1..MaxSirens}
    /\ only_active \in BOOLEAN
    /\ max_pages \in 1..MaxPagesBatch
    /\ max_429_retries = 1
    /\ page_size = 1
    /\ catalog = BatchCatalog
    /\ df_result \in {NoResult, PriorResult}
    /\ stop \in BOOLEAN

\* one identifier, every max_pages and max_429_retries
FetchInit ==
    /\ InitCommon
    /\ NoText
    /\ sirens_list = <<Siren(1)>>
    /\ only_active = TRUE
    /\ max_pages \in 0..MaxPagesFetch
    /\ max_429_retries \in 0..MaxRetries
    /\ page_size \in 1..MaxPageSize
    /\ catalog = FetchCatalog
    /\ df_result = NoResult
    /\ stop \in BOOLEAN

\* one identifier whose registry holds one record, of every shape
RecordInit ==
    /\ InitCommon
    /\ NoText
    /\ sirens_list = <<Siren(1)>>
    /\ only_active \in BOOLEAN
    /\ max_pages = 1
    /\ max_429_retries = 0
    /\ page_size = 1
    /\ catalog \in RecordCatalogs
    /\ df_result = NoResult
    /\ stop = FALSE

\* two active establishments, a closed one and one more active establishment
ExampleCatalog ==
    {Etab(1, 1, TRUE, <<>>, "A"), Etab(2, 1, FALSE, <<>>, "A"),
     Etab(3, 1, FALSE, <<>>, "F"), Etab(4, 1, FALSE, <<>>, "A")}

\* an active establishment, a record without SIRET and a closed establishment
NoSiretCatalog ==
    {Etab(1, 1, TRUE, <<>>, "A"), Etab(0, 1, FALSE, <<>>, "A"), Etab(3, 1, FALSE, <<>>, "F")}

\* one identifier fetched in at most two pages of up to MaxPageLen records:
\* the four establishments with the filter on, the record without SIRET with
\* the filter on or off
PageInit ==
    /\ InitCommon
    /\ NoText
    /\ sirens_list = <<Siren(1)>>
    /\ \/ catalog = ExampleCatalog /\ only_active = TRUE
       \/ catalog = NoSiretCatalog /\ only_active \in BOOLEAN
    /\ max_pages = 2
    /\ max_429_retries = 0
    /\ page_size = MaxPageLen
    /\ df_result = NoResult
    /\ stop = FALSE

\* one SIRET answered with two contents under the larger SIREN, an
\* establishment under the smaller SIREN and one whose record has no SIREN
SortCatalog ==
    {Etab(1, 2, TRUE, <<>>, "A"), Etab(1, 2, FALSE, <<>>, Null),
     Etab(2, 1, FALSE, <<>>, "A"), Etab(3, 0, FALSE, <<>>, "F")}

\* the loop of the batch is over: the last identifier brought nothing, the
\* identifiers before it brought any list of up to MaxRows rows
SortInit ==
    /\ NoText
    /\ sirens_list = [k \in 1..(MaxRows + 1) |-> Siren(k)]
    /\ only_active = FALSE
    /\ max_pages = 1
    /\ max_429_retries = 0
    /\ page_size = 1
    /\ catalog = SortCatalog
    /\ stop \in BOOLEAN
    /\ df_result \in {NoResult, PriorResult}
    /\ bstate = "loop"
    /\ b_error = "none"
    /\ idx = MaxRows + 2
    /\ all_rows \in SeqsUpTo({MakeRow(e) : e \in SortCatalog}, MaxRows)
    /\ blog = [k \in 1..(2 * MaxRows + 3) |->
                  IF k = 1 THEN [ev |-> "launch", i |-> 0, flag |-> FALSE]
                  ELSE [ev |-> IF k % 2 = 0 THEN "check" ELSE "call",
                        i |-> k \div 2, flag |-> FALSE]]
    /\ fpc = "end"
    /\ page = 0
    /\ curseur = FirstCursor
    /\ retry_429 = 0
    /\ rows = <<>>
    /\ all_etabs = <<>>
    /\ f_outcome = "ok"
    /\ ret_rows = <<>>
    /\ ret_etabs = <<>>
    /\ flog = <<CheckEv(FALSE), SleepEv(BaseSleep), PageEv(FirstCursor, 200, Null, 0)>>

\* the end of the batch alone
SortNext == BatchFinish

\* the characters of a raw identifier: a digit and a character that is none
RawChars == {"7", "-"}

\* get_sirets_from_siren called for one raw identifier of any shape
CallInit ==
    /\ InitCommon
    /\ NoText
    /\ sirens_list \in {<<raw>> : raw \in SeqsUpTo(RawChars, MaxRawLen)}
    /\ only_active = TRUE
    /\ max_pages = 1
    /\ max_429_retries = 0
    /\ page_size = 1
    /\ catalog = FetchCatalog
    /\ df_result = NoResult
    /\ stop \in BOOLEAN

\* the keys of an address
AdrKeys ==
    {"complementAdresseEtablissement", "numeroVoieEtablissement",
     "indiceRepetitionEtablissement", "typeVoieEtablissement",
     "libelleVoieEtablissement", "distributionSpecialeEtablissement",
     "codePostalEtablissement", "libelleCommuneEtablissement",
     "libelleCedexEtablissement"}

\* an active establishment whose record has, besides, the keys of `more`
TextEtab(periodes, more) == Etab(1, 1, TRUE, periodes, "A") @@ more

\* the name of the legal entity in both formats, each field absent, blank or
\* filled, and the same without uniteLegale
NestedNames ==
    [denominationUniteLegale : {Null, " ", "D"}, nomUniteLegale : {Null, " ", "N"},
     prenom1UniteLegale : {Null, " ", "P"}]
FlatNames ==
    [denominationUniteLegale : {Null, " ", "d"}, nomUniteLegale : {Null, " ", "n"},
     prenom1UniteLegale : {Null, " ", "p"}]
NameCatalogs ==
    {{TextEtab(<<>>, flat @@ [uniteLegale |-> ul])} : ul \in NestedNames, flat \in FlatNames}
    \cup {{TextEtab(<<>>, flat)} : flat \in FlatNames}

\* the label and the status in the current period and flattened
LabelPeriods ==
    [dateFin : {0}, dateDebut : {1}, etat : {" ", "F"},
     enseigne1Etablissement : {Null, " ", "E1"}, enseigne2Etablissement : {Null, "E2"},
     enseigne3Etablissement : {Null, "E3"},
     denominationUsuelleEtablissement : {Null, " ", "U"}]
FlatLabels ==
    [enseigne1Etablissement : {Null, " ", "e1"}, enseigne2Etablissement : {Null, "e2"},
     enseigne3Etablissement : {Null},
     denominationUsuelleEtablissement : {Null, " ", "u"}]
LabelCatalogs ==
    {{TextEtab(<<p>>, flat)} : p \in LabelPeriods, flat \in FlatLabels}
    \cup {{TextEtab(<<>>, flat)} : flat \in FlatLabels}

\* one or two keys of the address in both formats, each absent, blank or filled
AddressCatalogs ==
    UNION {{{TextEtab(<<>>, flat @@ [adresseEtablissement |-> adr])} :
               adr \in [{k1, k2} -> {Null, " ", "N"}], flat \in [{k1, k2} -> {Null, " ", "F"}]} :
           k1 \in AdrKeys, k2 \in AdrKeys}

\* one identifier whose registry holds one record with names, labels or an
\* address, the filter being off
NormInit ==
    /\ InitCommon
    /\ NoText
    /\ sirens_list = <<Siren(1)>>
    /\ only_active = FALSE
    /\ max_pages = 1
    /\ max_429_retries = 0
    /\ page_size = 1
    /\ catalog \in NameCatalogs \cup LabelCatalogs \cup AddressCatalogs
    /\ df_result = NoResult
    /\ stop = FALSE

\* the pieces of a pasted text: two identifiers, a digit, separators, a
\* letter and an underscore
SirenA == <<"4", "8", "1", "9", "8", "6", "4", "4", "6">>
SirenB == <<"5", "5", "2", "1", "0", "0", "5", "5", "4">>
Tokens == {SirenA, SirenB, <<"0">>, <<" ">>, <<"\t">>, <<"\n">>, <<",">>, <<"a">>, <<"_">>}

RECURSIVE Flatten(_)
Flatten(ts) == IF ts = <<>> THEN <<>> ELSE Head(ts) \o Flatten(Tail(ts))

\* "481 986 446\n552100554\n481986446"
GroupedText ==
    <<"4", "8", "1", " ", "9", "8", "6", " ", "4", "4", "6", "\n">>
    \o SirenB \o <<"\n">> \o SirenA

\* "1234567890"
TenDigitText == <<"1", "2", "3", "4", "5", "6", "7", "8", "9", "0">>

\* "a481986446,552100554,481986446"
RepeatedText == <<"a">> \o SirenA \o <<",">> \o SirenB \o <<",">> \o SirenA

Texts ==
    {Flatten(ts) : ts \in SeqsUpTo(Tokens, MaxTokens)}
    \cup {GroupedText, TenDigitText, RepeatedText}

\* a text was pasted and the script has not read it yet
ExtractInit ==
    /\ sirens_text \in Texts
    /\ sirens_from_text = <<>>
    /\ sirens_list = <<>>
    /\ only_active = TRUE
    /\ max_pages = 1
    /\ max_429_retries = 0
    /\ page_size = 1
    /\ catalog = FetchCatalog
    /\ df_result = NoResult
    /\ stop = FALSE
    /\ bstate = "input"
    /\ b_error = "none"
    /\ idx = 0
    /\ all_rows = <<>>
    /\ blog = <<>>
    /\ fpc = "end"
    /\ page = 0
    /\ curseur = FirstCursor
    /\ retry_429 = 0
    /\ rows = <<>>
    /\ all_etabs = <<>>
    /\ f_outcome = "none"
    /\ ret_rows = <<>>
    /\ ret_etabs = <<>>
    /\ flog = <<>>

\* the reading of the text area alone
ExtractNext == ExtractSirens

Spec == Init /\ [][Next]_vars
ExtractSpec == ExtractInit /\ [][ExtractNext]_vars
CallSpec == CallInit /\ [][Next]_vars
SortSpec == SortInit /\ [][SortNext]_vars
PageSpec == PageInit /\ [][Next]_vars
FetchSpec == FetchInit /\ [][Next]_vars
RecordSpec == RecordInit /\ [][Next]_vars
NormSpec == NormInit /\ [][Next]_vars

\* the statements of one call of get_sirets_from_siren
FetchStep ==
    \/ FetchLoopEnd
    \/ FetchStopRequested
    \/ FetchProceed
    \/ RespNetworkError
    \/ RespThrottled
    \/ RespHttpError
    \/ RespPage

\* one identifier, every max_pages, no or one 429 retry, one record per page
FetchLiveInit ==
    /\ InitCommon
    /\ NoText
    /\ sirens_list = <<Siren(1)>>
    /\ only_active = TRUE
    /\ max_pages \in 0..MaxPagesLive
    /\ max_429_retries \in {0, 1}
    /\ page_size = 1
    /\ catalog = FetchCatalog
    /\ df_result = NoResult
    /\ stop \in BOOLEAN

\* the interpreter goes on executing a call that has begun, and every request
\* is answered or fails (timeout_s)
FetchLiveSpec == FetchLiveInit /\ [][Next]_vars /\ WF_vars(FetchStep)

-----------------------------------------------------------------------------
(* Reading the histories *)

IsGet(e) == e.ev = "get"
IsPageGet(e) == e.ev = "get" /\ e.st = 200
Is429(e) == e.ev = "get" /\ e.st = 429

\* the pages of records received, the 429 answers received
PagesFetched(log) == Cardinality({k \in 1..Len(log) : IsPageGet(log[k])})
Throttles(log) == Cardinality({k \in 1..Len(log) : Is429(log[k])})

\* the 429 answers received since the last answer that was no 429
Trailing429(log) ==
    Cardinality({k \in 1..Len(log) :
        /\ Is429(log[k])
        /\ \A j \in (k + 1)..Len(log) : IsGet(log[j]) => Is429(log[j])})

\* the backoff sleeps slept since the last answer that was no 429, up to entry k
BackoffRank(log, k) ==
    Cardinality({m \in 1..k :
        /\ log[m].ev = "backoff"
        /\ \A j \in m..k : IsGet(log[j]) => Is429(log[j])})

LastOf(log) == log[Len(log)]

FailureKinds == {"safety", "rate_limit", "network", "http401", "http400", "http_error"}

-----------------------------------------------------------------------------
(* Claims about one call of get_sirets_from_siren, checked under FetchSpec *)

\* C1: N <= max_429_retries consecutive 429 answers cost N backoff sleeps, the
\* k-th of k seconds, and the request is then tried again, so that a success
\* after them is processed: a call whose last act was a backoff sleep has not
\* failed, whatever max_pages and the position of the page.
C1_RetryAfterBackoff ==
    /\ \A k \in 1..Len(flog) :
          flog[k].ev = "backoff" =>
              /\ Is429(flog[k - 1])
              /\ flog[k].d = 10 * BackoffRank(flog, k)
    /\ (flog # <<>> /\ LastOf(flog).ev = "backoff") => f_outcome \notin FailureKinds

\* C2: the call fails with the rate-limit error exactly when the 429 answers
\* received since the last answer that was no 429 outnumber max_429_retries;
\* 429 answers separated by a fetched page do not add up.
C2_RateLimitIffExceeded ==
    (f_outcome = "rate_limit") <=> (Trailing429(flog) > max_429_retries)

\* C2 witness: a call that succeeded although it received, in all, more 429
\* answers than max_429_retries, a page having come between them.
C2_Witness ==
    /\ f_outcome = "ok"
    /\ Throttles(flog) > max_429_retries
    /\ max_429_retries > 0

\* C3: the safety stop is raised only after max_pages pages of records were
\* fetched; throttled attempts are not pages.
C3_SafetyOnlyAfterMaxPages ==
    f_outcome = "safety" => PagesFetched(flog) = max_pages

\* C4: a page answered with no next cursor, or with the cursor that was just
\* requested, is the last request of the call, and the call returns
\* successfully: no safety stop, also on page number max_pages.
C4_StallEndsFetch ==
    \A k \in 1..Len(flog) :
        (/\ IsPageGet(flog[k])
         /\ flog[k].nxt \in {Null, "", flog[k].cur})
        => /\ k = Len(flog)
           /\ f_outcome = "ok"
           /\ fpc = "end"

\* C4 witness: the requested cursor comes back on page number max_pages.
C4_Witness ==
    /\ f_outcome = "ok"
    /\ max_pages >= 2
    /\ PagesFetched(flog) = max_pages
    /\ LastOf(flog).nxt = LastOf(flog).cur

\* C5: a stop check that finds the flag set is the last act of the call: no
\* sleep and no request follow it, the call ends with STOP_REQUESTED and hands
\* neither rows nor raw records to the caller.
C5_StopAborts ==
    \A k \in 1..Len(flog) :
        (flog[k].ev = "check" /\ flog[k].d = 1)
        => /\ k = Len(flog)
           /\ f_outcome = "stop"
           /\ ret_rows = <<>> /\ ret_etabs = <<>>
           /\ all_rows = <<>>
           /\ bstate = "stopped"

\* C5 witness: the flag is found set on the retry that follows a 429, after a
\* page of records was already fetched.
C5_Witness ==
    /\ f_outcome = "stop"
    /\ Len(flog) >= 2
    /\ flog[Len(flog) - 1].ev = "backoff"
    /\ PagesFetched(flog) > 0

\* C6: a request that ends in a transport error, a 401, a 400 or another HTTP
\* error status is the last request of the call; the call ends with that error
\* and hands no rows to the caller.
C6_FatalNotRetried ==
    \A k \in 1..Len(flog) :
        (IsGet(flog[k]) /\ flog[k].st \in {NetworkError, 400, 401, 500})
        => /\ k = Len(flog)
           /\ f_outcome \in {"network", "http400", "http401", "http_error"}
           /\ ret_rows = <<>> /\ ret_etabs = <<>>
           /\ all_rows = <<>>

\* C6 witness: a server error on a later page, rows being already gathered.
C6_Witness ==
    /\ f_outcome = "http_error"
    /\ PagesFetched(flog) > 0
    /\ Throttles(flog) > 0

-----------------------------------------------------------------------------
(* Claims about the batch run, checked under Spec *)

\* the identifiers get_sirets_from_siren was called for, in call order
RECURSIVE CallsOf(_)
CallsOf(log) ==
    IF log = <<>> THEN <<>>
    ELSE (IF Head(log).ev = "call" THEN <<Head(log).i>> ELSE <<>>) \o CallsOf(Tail(log))

\* C7: a fetch error for identifier number i ends the batch in that error:
\* the fetcher was called for identifiers 1..i and for no other, the error is
\* the one shown, and the stored result is not replaced by an aggregate of the
\* rows of identifiers 1..i-1.
C7_ErrorAbortsBatch ==
    (f_outcome \in FailureKinds \/ bstate = "error") =>
        /\ bstate = "error"
        /\ b_error = f_outcome
        /\ b_error \in FailureKinds
        /\ CallsOf(blog) = [k \in 1..idx |-> k]
        /\ LastOf(blog) = [ev |-> "call", i |-> idx, flag |-> FALSE]
        /\ df_result \in {NoResult, PriorResult}

\* C7 witness: the second of three identifiers fails after the first one
\* brought rows.
C7_Witness ==
    /\ bstate = "error"
    /\ idx = 2
    /\ idx < Total
    /\ all_rows # <<>>
    /\ df_result = PriorResult

\* C8: the fetcher is called for the identifiers in list order, one call at a
\* time, each call right after a stop check that found the flag clear; a
\* check that finds the flag set (at launch or before identifier i) is the
\* last act of the run: no call for identifier i or a later one follows, and
\* the run ends stopped.
C8_OrderAndStopCheck ==
    /\ \E n \in 0..Total : CallsOf(blog) = [k \in 1..n |-> k]
    /\ bstate = "fetch" => CallsOf(blog) = [k \in 1..idx |-> k]
    /\ \A k \in 1..Len(blog) :
          /\ blog[k].ev = "call" =>
                blog[k - 1] = [ev |-> "check", i |-> blog[k].i, flag |-> FALSE]
          /\ (blog[k].ev \in {"launch", "check"} /\ blog[k].flag) =>
                /\ k = Len(blog)
                /\ bstate = (IF blog[k].ev = "launch" THEN "halted" ELSE "stopped")
    /\ bstate = "halted" => CallsOf(blog) = <<>>

\* C8 witness: the flag is found set between the first and the second
\* identifier.
C8_Witness ==
    /\ bstate = "stopped"
    /\ idx = 2
    /\ f_outcome = "ok"
    /\ LastOf(blog) = [ev |-> "check", i |-> 2, flag |-> TRUE]

\* C9: the batch result holds exactly one row per SIRET of the aggregated
\* rows, and that row is the last of the aggregated rows with this SIRET.
C9_LastOccurrenceKept ==
    bstate = "done" =>
        /\ \A k \in 1..Len(all_rows) :
              (\A j \in (k + 1)..Len(all_rows) : all_rows[j].SIRET # all_rows[k].SIRET)
              => \E m \in 1..Len(df_result.table) : df_result.table[m] = all_rows[k]
        /\ \A m, n \in 1..Len(df_result.table) :
              df_result.table[m].SIRET = df_result.table[n].SIRET => m = n
        /\ \A m \in 1..Len(df_result.table) :
              \E k \in 1..Len(all_rows) : all_rows[k].SIRET = df_result.table[m].SIRET

-----------------------------------------------------------------------------
(* Claims about the status of the returned rows, checked under RecordSpec *)

\* C10 as stated: with only_active, every returned row is labelled "Actif".
C10_OnlyActifRows ==
    only_active => \A k \in 1..Len(ret_rows) : ret_rows[k].Etat = "Actif"

\* C10 amended: with only_active, every returned row is labelled "Actif" or
\* has an empty label; the empty label belongs to a record whose flattened
\* status is absent or blank (its current period gave no status either).
C10_ActifOrNoStatus ==
    only_active =>
        \A k \in 1..Len(ret_rows) :
            \/ ret_rows[k].Etat = "Actif"
            \/ /\ ret_rows[k].Etat = ""
               /\ \A j \in 1..Len(ret_etabs) :
                     ret_etabs[j].siret = ret_rows[k].SIRET
                     => ret_etabs[j].etat \in {Null, " "}

\* C10 witness: a record with a two-period history comes back without label.
C10_Witness ==
    /\ only_active
    /\ f_outcome = "ok"
    /\ ret_rows # <<>>
    /\ ret_rows[1].Etat = ""
    /\ \E e \in catalog : Len(e.periodes) = 2 /\ \E k \in 1..2 : e.periodes[k].etat = "F"

-----------------------------------------------------------------------------
(* Claims about the rows of one fetch, checked under PageSpec *)

\* the records received with the pages of the log
RECURSIVE RecordsReceived(_)
RecordsReceived(log) ==
    IF log = <<>> THEN 0
    ELSE (IF IsPageGet(Head(log)) THEN Head(log).d ELSE 0) + RecordsReceived(Tail(log))

\* a record that counts: it has a SIRET and, the filter being on, its status
\* is active or unknown
Counted(e) ==
    /\ e.siret # 0
    /\ only_active => _get_etat_admin(e) \in {"", "A"}

\* C11: a successful fetch hands back every record of every page it fetched,
\* and its rows are exactly one row per SIRET of the records that have a
\* SIRET and are not filtered out by only_active.
C11_OneRowPerSiret ==
    f_outcome = "ok" =>
        /\ Len(ret_etabs) = RecordsReceived(flog)
        /\ {ret_rows[k].SIRET : k \in 1..Len(ret_rows)}
              = {ret_etabs[j].siret : j \in {i \in 1..Len(ret_etabs) : Counted(ret_etabs[i])}}
        /\ \A m, n \in 1..Len(ret_rows) : ret_rows[m].SIRET = ret_rows[n].SIRET => m = n

\* C11 witness: page 1 brings two active records, a closed one and a next
\* cursor, page 2 one more active record and no next cursor: three rows.
C11_Witness ==
    /\ only_active
    /\ f_outcome = "ok"
    /\ Len(flog) = 6
    /\ IsPageGet(flog[3]) /\ flog[3].d = 3 /\ flog[3].nxt = "c1"
    /\ IsPageGet(flog[6]) /\ flog[6].d = 1 /\ flog[6].nxt = Null
    /\ {ret_etabs[j].siret : j \in 1..3} = {1, 2, 3}
    /\ ret_etabs[4].siret = 4
    /\ Len(ret_rows) = 3

-----------------------------------------------------------------------------
(* Claims about the rows of one fetch of a batch, checked under Spec *)

\* C12: the rows a fetch returns are in strictly ascending SIRET order (so no
\* SIRET comes twice), and they are the rows built from the last record of
\* each SIRET among the records accumulated over the pages.
C12_AscendingLastWins ==
    f_outcome = "ok" =>
        LET acc == ProcessEtabs(ret_etabs, only_active)
            last == {k \in 1..Len(acc) :
                        \A j \in (k + 1)..Len(acc) : acc[j].SIRET # acc[k].SIRET}
        IN  /\ \A m, n \in 1..Len(ret_rows) :
                  m < n => ret_rows[m].SIRET < ret_rows[n].SIRET
            /\ {ret_rows[m] : m \in 1..Len(ret_rows)} = {acc[k] : k \in last}

\* C12 witness: a later page brings the SIRET of an earlier page again, with
\* another content; the row returned is the one of the later page.
C12_Witness ==
    /\ f_outcome = "ok"
    /\ Len(ret_etabs) = 2
    /\ ret_etabs[1].siret = ret_etabs[2].siret
    /\ MakeRow(ret_etabs[1]) # MakeRow(ret_etabs[2])
    /\ ret_rows = <<MakeRow(ret_etabs[2])>>

-----------------------------------------------------------------------------
(* Claims about the result of the batch, checked under SortSpec *)

\* C13: in the result of a finished batch, a row never comes before a row
\* with a smaller SIREN, or with the same SIREN and a smaller SIRET, whatever
\* the order in which the rows were aggregated.
C13_SortedBySirenSiret ==
    bstate = "done" =>
        \A m, n \in 1..Len(df_result.table) :
            m < n =>
                \/ df_result.table[m].SIREN < df_result.table[n].SIREN
                \/ /\ df_result.table[m].SIREN = df_result.table[n].SIREN
                   /\ df_result.table[m].SIRET <= df_result.table[n].SIRET

\* C13 witness: two rows aggregated in SIRET order come out in the other
\* order, their SIRENs being in the other order.
C13_Witness ==
    /\ bstate = "done"
    /\ Len(all_rows) = 2
    /\ all_rows[1].SIRET < all_rows[2].SIRET
    /\ df_result.table = <<all_rows[2], all_rows[1]>>

\* C14: deduplicating and sorting the result of a finished batch once more
\* leaves it as it is.
C14_BuildResultIdempotent ==
    bstate = "done" => BuildResult(df_result.table) = df_result.table

\* C14 witness: the first pass dropped a row and moved another.
C14_Witness ==
    /\ bstate = "done"
    /\ Len(all_rows) = 3
    /\ Len(df_result.table) = 2
    /\ df_result.table[1] # all_rows[1]
    /\ BuildResult(df_result.table) = df_result.table

-----------------------------------------------------------------------------
(* Claims about the validation of the identifier, checked under CallSpec *)

\* the raw identifier does not hold exactly 9 digits
Malformed(raw) == Cardinality({k \in 1..Len(raw) : IsDigit(raw[k])}) # 9

\* C15: once get_sirets_from_siren was called, a malformed identifier has
\* made it fail with the validation error, no stop check, sleep or request
\* having taken place, and the batch shows that error; a well-formed
\* identifier never ends in the validation error.
C15_MalformedRejectedFirst ==
    f_outcome # "none" =>
        IF Malformed(sirens_list[1])
        THEN /\ f_outcome = "validation"
             /\ flog = <<>>
             /\ ret_rows = <<>> /\ ret_etabs = <<>>
             /\ bstate = "error" /\ b_error = "validation"
        ELSE f_outcome # "validation"

\* C15 witness: nine characters, one of them no digit, are rejected.
C15_Witness ==
    /\ f_outcome = "validation"
    /\ Len(sirens_list[1]) = 9
    /\ flog = <<>>

-----------------------------------------------------------------------------
(* Claims about extract_sirens_from_text, checked under ExtractSpec *)

\* a run of exactly 9 digits of s begins at character p: no digit stands
\* before it and none behind it
NineRunAt(s, p) ==
    /\ p >= 1
    /\ p + 8 <= Len(s)
    /\ \A k \in p..(p + 8) : IsDigit(s[k])
    /\ p = 1 \/ ~IsDigit(s[p - 1])
    /\ p + 8 = Len(s) \/ ~IsDigit(s[p + 9])

\* the identifier id occurs at character p of s
OccursAt(s, id, p) == NineRunAt(s, p) /\ SubSeq(s, p, p + 8) = id

\* C16: the list made of the text holds only strings of exactly 9 digits,
\* holds no string twice, and is ordered by first occurrence: of two
\* identifiers of the list, the earlier one occurs in the text before every
\* occurrence of the later one.
C16_NineDigitsOnceFirstSeen ==
    bstate = "idle" =>
        LET c == Compact(sirens_text)
            out == sirens_from_text
        IN  /\ \A k \in 1..Len(out) :
                  Len(out[k]) = 9 /\ \A j \in 1..9 : IsDigit(out[k][j])
            /\ \A m, n \in 1..Len(out) : out[m] = out[n] => m = n
            /\ \A m, n \in 1..Len(out) :
                  m < n =>
                      \E p \in 1..Len(c) :
                          /\ OccursAt(c, out[m], p)
                          /\ \A q \in 1..p : ~OccursAt(c, out[n], q)

\* C17: every run of exactly 9 digits of the text without its spaces and
\* tabs, standing between non-digits or the ends of the text, is in the list.
C17_EveryNineRunReturned ==
    bstate = "idle" =>
        LET c == Compact(sirens_text)
        IN  \A p \in 1..Len(c) :
                NineRunAt(c, p) =>
                    \E k \in 1..Len(sirens_from_text) :
                        sirens_from_text[k] = SubSeq(c, p, p + 8)

\* C18: a text that lists two identifiers, separated by a line break, by a
\* space or by a comma, gives a list that holds both of them.
C18_ListedAllReturned ==
    bstate = "idle" =>
        \A x, y \in {SirenA, SirenB}, sep \in {"\n", " ", ","} :
            sirens_text = x \o <<sep>> \o y =>
                /\ \E k \in 1..Len(sirens_from_text) : sirens_from_text[k] = x
                /\ \E k \in 1..Len(sirens_from_text) : sirens_from_text[k] = y

\* C19: every identifier of the list is a whole run of digits of the text
\* without its spaces and tabs: a run of 10 digits or more gives none.
C19_NoWindowOfLongerRun ==
    bstate = "idle" =>
        LET c == Compact(sirens_text)
        IN  \A k \in 1..Len(sirens_from_text) :
                \E p \in 1..Len(c) : OccursAt(c, sirens_from_text[k], p)

\* C19 witness: "1234567890" gives the empty list.
C19_Witness ==
    /\ bstate = "idle"
    /\ sirens_text = TenDigitText
    /\ sirens_from_text = <<>>

-----------------------------------------------------------------------------
(* Claim about the cursors of one call, checked under FetchSpec *)

\* the requests of the history, in order
Gets(log) == SelectSeq(log, IsGet)

\* C20: the first request of a call carries the cursor "*"; the request that
\* follows a page of records carries the next cursor of that page; the
\* request that follows a 429 carries the cursor of the throttled request;
\* and while the call runs, the cursor it holds for its next request is that
\* one.
C20_CursorChaining ==
    LET g == Gets(flog)
    IN  /\ g # <<>> => g[1].cur = "*"
        /\ \A k \in 1..(Len(g) - 1) :
              /\ IsPageGet(g[k]) => g[k + 1].cur = g[k].nxt
              /\ Is429(g[k]) => g[k + 1].cur = g[k].cur
        /\ bstate = "fetch" =>
              curseur = IF g = <<>> THEN "*"
                        ELSE IF IsPageGet(g[Len(g)]) THEN g[Len(g)].nxt
                        ELSE g[Len(g)].cur

\* C20 witness: the second page is throttled once, then fetched with the
\* cursor the first page gave, and gives the cursor of the third request.
C20_Witness ==
    LET g == Gets(flog)
    IN  /\ Len(g) = 4
        /\ IsPageGet(g[1]) /\ g[1].nxt = "c1"
        /\ Is429(g[2]) /\ g[2].cur = "c1"
        /\ IsPageGet(g[3]) /\ g[3].cur = "c1" /\ g[3].nxt = "c2"
        /\ g[4].cur = "c2"

-----------------------------------------------------------------------------
(* Claim about a stop requested while the batch runs, checked under Spec *)

\* the batch is in its loop or inside a call of get_sirets_from_siren
Running == bstate \in {"loop", "fetch"}

\* C21: while the flag is set, a step of a running batch never makes a new
\* request pending (so that at most the request that was pending when the
\* flag was set is still sent); it ends the batch only in cancellation, or in
\* success when every identifier is already fetched, never in an error; and
\* a cancelled batch shows the stop message, no error.
C21_StopCancelsRun ==
    [][(stop /\ Running) =>
          /\ fpc # "req" => fpc' # "req"
          /\ bstate' \in {"loop", "fetch", "stopped", "done"}
          /\ bstate' = "done" => (bstate = "loop" /\ idx > Total)
          /\ bstate' = "stopped" => Surfaced' = "stopped"]_vars

-----------------------------------------------------------------------------
(* Claim about the text fields of the returned rows, checked under NormSpec *)

\* the nested value when it is not empty once trimmed, else the flattened one
Preferred(nested, flat) ==
    IF OrEmptyStrip(nested) # "" THEN OrEmptyStrip(nested) ELSE OrEmptyStrip(flat)

\* the component k of the address of the record e, nested before flattened
Component(e, k) == Preferred(Get(Nested(e, "adresseEtablissement"), k), Get(e, k))

\* C22: in every returned row the name is the name uniteLegale gives when it
\* gives one and the flattened name otherwise, the label is the label of the
\* current period when it gives one and the flattened label otherwise, the
\* status is the status of the current period when it is not blank and the
\* flattened status otherwise, and every component of the address is the
\* nested value when that is not blank and the flattened value otherwise.
C22_NestedOverridesFlat ==
    \A j \in 1..Len(ret_rows) : \A e \in catalog :
        LET row == ret_rows[j]
            p0  == IF e.periodes # <<>> THEN _latest_period(e.periodes) ELSE <<>>
            voie == SelectSeq(<<Component(e, "numeroVoieEtablissement"),
                                Component(e, "indiceRepetitionEtablissement"),
                                Component(e, "typeVoieEtablissement"),
                                Component(e, "libelleVoieEtablissement")>>, NonEmpty)
        IN  /\ row.NomUniteLegale =
                   IF NameIn(Nested(e, "uniteLegale")) # <<>>
                   THEN NameIn(Nested(e, "uniteLegale")) ELSE NameIn(e)
            /\ row.NomEtablissement = IF LabelIn(p0) # <<>> THEN LabelIn(p0) ELSE LabelIn(e)
            /\ row.Etat = StatusLabel(Preferred(Get(p0, "etat"), e.etat))
            /\ row.CodePostal = Component(e, "codePostalEtablissement")
            /\ row.Ville = IF Component(e, "libelleCedexEtablissement") # ""
                           THEN Component(e, "libelleCedexEtablissement")
                           ELSE Component(e, "libelleCommuneEtablissement")
            /\ row.Adresse =
                   SelectSeq(<<Part(Component(e, "complementAdresseEtablissement")), voie,
                               Part(Component(e, "distributionSpecialeEtablissement"))>>,
                             NonEmptyParts)

-----------------------------------------------------------------------------
(* Claim about the end of one call, checked under FetchLiveSpec *)

\* C23: whatever the registry answers, a call of get_sirets_from_siren sends
\* at most max_pages requests; with max_pages = 0 it sends none and ends in
\* the safety stop; and a call that has begun comes to its end.
C23_EndsWithinMaxPages ==
    /\ [](Len(Gets(flog)) <= max_pages)
    /\ []((max_pages = 0 /\ f_outcome \notin {"none", "running"})
              => (f_outcome = "safety" /\ flog = <<>>))
    /\ (bstate = "fetch") ~> (bstate # "fetch")

\* C23 witness: 429 answers and pages of records used up every turn of the
\* loop, and the call ended in the safety stop.
C23_Witness ==
    /\ f_outcome = "safety"
    /\ max_pages > 1
    /\ Len(Gets(flog)) = max_pages
    /\ Throttles(flog) > 0
    /\ PagesFetched(flog) > 0

-----------------------------------------------------------------------------
(* Claim about what a batch run leaves alone, checked under Spec *)

\* C24: the stored result changes only in the step that ends a batch whose
\* loop called the fetcher for every identifier of the list without an error;
\* no step that ends a batch in cancellation or in an error changes it; and
\* the stop flag changes only in a step of the Stop or Reset button, which
\* changes nothing of the batch or of the fetch.
C24_ResultOnlyBySuccess ==
    [][/\ df_result' # df_result =>
              /\ bstate = "loop" /\ bstate' = "done"
              /\ b_error = "none"
              /\ f_outcome = "ok"
              /\ CallsOf(blog) = [k \in 1..Total |-> k]
              /\ df_result' = Stored(BuildResult(all_rows))
       /\ bstate' \in {"stopped", "error", "halted"} => df_result' = df_result
       /\ stop' # stop =>
              /\ batchVars' = batchVars
              /\ fetchVars' = fetchVars]_vars

\* C24 witness: the batch was stopped before its second identifier, the rows
\* of the first one being gathered, and the result of the former run is
\* still the stored one.
C24_Witness ==
    /\ bstate = "stopped"
    /\ f_outcome = "ok"
    /\ all_rows # <<>>
    /\ df_result = PriorResult
    /\ stop

====
